---- MODULE Spec2Model ----
(***************************************************************************)
(* Quiz attempt engine of the LMS (apps/quizzes): the take_quiz view, the  *)
(* QuizAttempt model methods it calls, and the question catalogue the      *)
(* instructor edits.  The database runs in autocommit mode (no transaction *)
(* is opened anywhere in the sources), so every ORM query or save() of a   *)
(* request is one atomic step and the steps of concurrent requests         *)
(* interleave.  Model.save() on an existing row rewrites every column from *)
(* the in-memory object.                                                   *)
(*                                                                         *)
(* One course, one lesson and its one quiz are modelled; the clock counts  *)
(* minutes.  The specifications of the quiz side share the actions:       *)
(*   Spec        concurrent requests, quiz without time limit              *)
(*   SpecTimed   concurrent requests, quiz with a time limit, clock ticks  *)
(*   SpecSeq     one request at a time while the instructor edits questions*)
(*   SpecResults one student takes the quiz and reads quiz_results         *)
(*   SpecHistory one request at a time while questions or the quiz are     *)
(*               deleted                                                   *)
(*   SpecReorder questions are added and reordered while another course    *)
(*               has a quiz of its own                                     *)
(*                                                                         *)
(* The course side (apps/courses, apps/enrollments) is modelled one        *)
(* request at a time, each view being one step:                            *)
(*   SpecAccess  lesson access for every kind of principal                 *)
(*   SpecManage  the permission checks of the management views             *)
(*   SpecEnroll  enrollments, their progress and the course's counter      *)
(*   SpecReview  course reviews and the course's average rating            *)
(* and, with every query and save() of a request as a step of its own:     *)
(*   SpecRace    concurrent enrollment and review requests                 *)
(***************************************************************************)
EXTENDS Integers, Sequences, FiniteSets, TLC

\* ------------------------------------------------------------------ bounds
\* the clock runs 0..MaxTime minutes
MaxTime == 1
\* QuizAttempt rows the model lets be created
MaxAttempts == 2
\* question primary keys handed out
MaxQid == 2
\* lessons a course can have at one time
MaxLessons == 2

\* ------------------------------------------------------------ input domains
Students == {"s1", "s2"}
\* the principals of a request: nobody logged in, the students, the course's
\* instructor, another instructor, an administrator
Anonymous == "anon"
Principals == {Anonymous, "s1", "s2", "i1", "i2", "a1"}
CourseStatuses == {"draft", "published"}
\* ratings that arrive in request.POST of add_course_review
Ratings == {1, 2, 4, 5}
Requests == {"r1", "r2"}
Methods == {"GET", "POST"}
PassingScores == {0, 60}
AttemptCaps == {0, 1, 2}
PointValues == {0, 2, 3}
CORRECT_CHOICES == {"A", "B"}
AnswerValues == {"A", "b"}

None == -1            \* Python None / SQL NULL for integer-valued fields

\* str(question.id): the decimal text of a primary key
Digits == <<"0", "1", "2", "3", "4", "5", "6", "7", "8", "9">>
Str(i) == Digits[i + 1]
QuestionKeys == {Str(i) : i \in 1..MaxQid}

\* str(answer).upper()
Upper(a) == CASE a = "a" -> "A" [] a = "b" -> "B" [] a = "c" -> "C"
              [] a = "d" -> "D" [] OTHER -> a

\* request bodies: the question_<key> fields of a POST, as key -> value
PostBodies == UNION {[K -> AnswerValues] : K \in SUBSET QuestionKeys}

VARIABLES
    quiz,         \* the Quiz row: time_limit, passing_score, max_attempts, is_published
    questions,    \* the quiz's Question rows
    next_qid,     \* next Question primary key
    attempts,     \* QuizAttempt rows, attempts[i] has primary key i
    enrollments,  \* students with an Enrollment row for the course
    now,          \* timezone.now(), in minutes
    req           \* per request slot: position in take_quiz, its local variables,
                  \* and after the view returned, the response; expired_at_arrival
                  \* is history: the user's attempts that a time-remaining query
                  \* had already closed when the request arrived

VARIABLES
    course,       \* the Course row: exists, instructor, status, total_enrollments,
                  \* average_rating (in hundredths)
    lessons,      \* the course's Lesson rows
    enrollment,   \* the other columns of the Enrollment rows: enrollment[s] for
                  \* s \in enrollments has progress, status, completed_at
    reviews,      \* CourseReview rows: reviews[s] is the rating student s gave
    resp          \* the response of the last lesson_detail request: who asked
                  \* for which lesson and what the view answered

VARIABLES
    course_req,      \* per request slot: position in an enrollment or review
                     \* view whose database statements interleave with those
                     \* of other requests, and the objects it holds in memory
    other_questions  \* the Question rows of a quiz of another course

course_vars == <<course, lessons, enrollment, reviews, resp, course_req,
                 other_questions>>

vars == <<quiz, questions, next_qid, attempts, enrollments, now, req, course_vars>>

\* ------------------------------------------------------------- arithmetic
RECURSIVE GCD(_, _)
GCD(a, b) == IF b = 0 THEN a ELSE GCD(b, a % b)

\* a float percentage (earned / total) * 100 kept exactly, as <<num, den>> in
\* lowest terms (for totals up to 12 points the double result compares with
\* every integer threshold as the exact quotient does)
Percentage(earned, total) ==
    LET g == GCD(100 * earned, total)
    IN  <<(100 * earned) \div g, total \div g>>

PctZero == <<0, 1>>
PctGE(p, k) == p[1] >= k * p[2]
PctEq(p, k) == p[1] = k * p[2]

\* ------------------------------------------------------------ QuizAttempt
\* a freshly constructed QuizAttempt (field defaults)
NewAttempt(pk, student, number, t) ==
    [id |-> pk, student |-> student, status |-> "in_progress", score |-> 0,
     percentage |-> PctZero, passed |-> FALSE, answers |-> << >>,
     started_at |-> t, completed_at |-> None, time_taken |-> 0,
     attempt_number |-> number]

\* current_attempt = None
NoAttempt == NewAttempt(0, "", 0, 0)

\* mutant: the answer is compared as posted, without upper()
check_answer_exact(question, answer) == answer = question.correct_answer

\* Question.check_answer
check_answer(question, answer) == Upper(answer) = question.correct_answer

\* answers.get(str(question.id)) followed by `answer and check_answer(answer)`
AnswerIsCorrect(answers, question) ==
    LET key == Str(question.id)
    IN  /\ key \in DOMAIN answers
        /\ answers[key] # ""
        /\ check_answer(question, answers[key])

\* the loop of calculate_score: <<total_points, earned_points>>
RECURSIVE ScoreLoop(_, _, _, _)
ScoreLoop(qs, answers, total_points, earned_points) ==
    IF qs = {} THEN <<total_points, earned_points>>
    ELSE LET question == CHOOSE q \in qs : \A o \in qs : q.order <= o.order
         IN  ScoreLoop(qs \ {question}, answers,
                       total_points + question.points,
                       IF AnswerIsCorrect(answers, question)
                       THEN earned_points + question.points
                       ELSE earned_points)

\* mutant: the threshold itself does not pass
PassedStrict(percentage, passing_score) ==
    percentage[1] > passing_score * percentage[2]

\* self.passed = self.percentage >= self.quiz.passing_score
Passed(percentage, passing_score) == PctGE(percentage, passing_score)

\* mutant: a quiz without points is scored like any other, as 0 percent
calculate_score_unguarded(self, qs, q) ==
    LET pts == ScoreLoop(qs, self.answers, 0, 0)
        pct == IF pts[1] > 0 THEN Percentage(pts[2], pts[1]) ELSE PctZero
    IN  [self EXCEPT !.score = pts[2], !.percentage = pct,
                     !.passed = Passed(pct, q.passing_score),
                     !.status = "completed"]

\* QuizAttempt.calculate_score on the in-memory object, up to (not including) save()
calculate_score(self, qs, q) ==
    LET pts == ScoreLoop(qs, self.answers, 0, 0)
        total_points == pts[1]
        earned_points == pts[2]
    IN  IF total_points > 0
        THEN [self EXCEPT !.score = earned_points,
                          !.percentage = Percentage(earned_points, total_points),
                          !.passed = Passed(Percentage(earned_points, total_points),
                                            q.passing_score),
                          !.status = "completed"]
        ELSE [self EXCEPT !.status = "completed"]

\* mutant: the attempt is closed when a minute or less remains
get_time_remaining_early(self, q, t) ==
    IF q.time_limit = 0 \/ self.status # "in_progress"
    THEN [ret |-> None, obj |-> self, saved |-> FALSE]
    ELSE LET remaining == (q.time_limit * 60) - (t - self.started_at) * 60
         IN  IF remaining <= 60
             THEN [ret |-> 0, obj |-> [self EXCEPT !.status = "completed"],
                   saved |-> TRUE]
             ELSE [ret |-> remaining, obj |-> self, saved |-> FALSE]

\* QuizAttempt.get_time_remaining on the in-memory object:
\* the value returned, the object afterwards, and whether save() was called
get_time_remaining(self, q, t) ==
    IF q.time_limit = 0 \/ self.status # "in_progress"
    THEN [ret |-> None, obj |-> self, saved |-> FALSE]
    ELSE LET elapsed == (t - self.started_at) * 60
             remaining == (q.time_limit * 60) - elapsed
         IN  IF remaining <= 0
             THEN [ret |-> 0, obj |-> [self EXCEPT !.status = "completed"],
                   saved |-> TRUE]
             ELSE [ret |-> remaining, obj |-> self, saved |-> FALSE]

\* Model.save() of an object that has a row: every column is rewritten
Save(rows, obj) == [rows EXCEPT ![obj.id] = obj]

\* mutant: no unique constraint on the table
UniqueNever(rows, student, number) == FALSE

\* unique_together = ['student', 'quiz', 'attempt_number']
UniqueViolation(rows, student, number) ==
    \E i \in DOMAIN rows : rows[i].student = student /\ rows[i].attempt_number = number

\* QuizAttempt.objects.filter(student=user, quiz=quiz).count()
AttemptsCount(rows, user) ==
    Cardinality({i \in DOMAIN rows : rows[i].student = user})

\* QuizAttempt.objects.filter(student=user, quiz=quiz, status='in_progress')
InProgressOf(rows, user) ==
    {i \in DOMAIN rows : rows[i].student = user /\ rows[i].status = "in_progress"}

\* the user's attempts closed by get_time_remaining: completed, never submitted
ExpiredOf(rows, user) ==
    {i \in DOMAIN rows : /\ rows[i].student = user
                         /\ rows[i].status = "completed"
                         /\ rows[i].completed_at = None}

\* .first() under Meta.ordering = ['-started_at']: a row with the latest start
FirstCandidates(rows, ids) ==
    {i \in ids : \A j \in ids : rows[i].started_at >= rows[j].started_at}

\* ---------------------------------------------------------------- requests
\* a request slot before its first request
IdleRequest ==
    [pc |-> "idle", user |-> "", method |-> "", attempts_count |-> 0,
     current_attempt |-> NoAttempt, outcome |-> "", attempt_id |-> 0,
     time_remaining |-> None, expired_at_arrival |-> {}]

\* a slot is free before its first request and after a response; of the free
\* slots the first one takes the next request (slots are interchangeable)
Free(r) == req[r].pc \in {"idle", "done"}
MayStart(r) == Free(r) /\ (r = "r2" => ~Free("r1"))

\* the view returns: its outcome, the attempt it shows or redirects to (0 if
\* none) and the time_remaining handed to the template; the view's local
\* variables are gone
Response(user, method, outcome, attempt_id, time_remaining) ==
    [IdleRequest EXCEPT !.pc = "done", !.user = user, !.method = method,
                        !.outcome = outcome, !.attempt_id = attempt_id,
                        !.time_remaining = time_remaining]

\* mutant: the cap is never tested
CapNever(q, attempts_count) == FALSE

\* mutant: the cap lets one attempt too many through
CapReachedOffByOne(q, attempts_count) ==
    q.max_attempts > 0 /\ attempts_count > q.max_attempts

\* the cap test of views.py 267
CapReached(q, attempts_count) ==
    q.max_attempts > 0 /\ attempts_count >= q.max_attempts

\* views.py 248-270: a request arrives; enrollment check, the lesson's published
\* quiz, the attempt count and the cap.  The Enrollment and Quiz rows do not
\* change while requests run, so these reads are taken together with the count.
take_quiz(r, user, method) ==
    /\ MayStart(r)
    /\ LET attempts_count == AttemptsCount(attempts, user)
       IN  req' = [req EXCEPT ![r] =
             IF user \notin enrollments
             THEN Response(user, method, "NotEnrolled", 0, None)
             ELSE IF ~quiz.is_published
             THEN Response(user, method, "QuizUnpublished", 0, None)
             ELSE IF CapReached(quiz, attempts_count)
             THEN Response(user, method, "MaxAttemptsReached", 0, None)
             ELSE [IdleRequest EXCEPT !.pc = "L273", !.user = user,
                      !.method = method, !.attempts_count = attempts_count,
                      !.expired_at_arrival = ExpiredOf(attempts, user)]]
    /\ UNCHANGED <<quiz, questions, next_qid, attempts, enrollments, now, course_vars>>

\* views.py 272-279, 316-317: in-progress lookup and dispatch on the method
take_quiz_current_attempt(r) ==
    /\ req[r].pc = "L273"
    /\ LET found == InProgressOf(attempts, req[r].user)
       IN  IF found = {}
           THEN req' = [req EXCEPT ![r].pc =
                            IF req[r].method = "POST" THEN "L338" ELSE "L319"]
           ELSE \E i \in FirstCandidates(attempts, found) :
                  req' = [req EXCEPT ![r].current_attempt = attempts[i],
                            ![r].pc = IF req[r].method = "POST" THEN "L283" ELSE "L338"]
    /\ UNCHANGED <<quiz, questions, next_qid, attempts, enrollments, now, course_vars>>

\* views.py 293: `answered_count < total_questions`
Incomplete(post, qs) == Cardinality(DOMAIN post) < Cardinality(qs)

\* views.py 281-293: count the quiz's questions, collect the posted answers
take_quiz_collect_answers(r, post) ==
    /\ req[r].pc = "L283"
    /\ IF Incomplete(post, questions)
       THEN req' = [req EXCEPT ![r].pc = "L301"]
       ELSE req' = [req EXCEPT ![r].pc = "L308",
                               ![r].current_attempt.answers = post]
    /\ UNCHANGED <<quiz, questions, next_qid, attempts, enrollments, now, course_vars>>

\* a render of take_quiz.html: time_remaining = current_attempt.get_time_remaining()
RenderWith(r, outcome) ==
    IF req[r].current_attempt.id = 0
    THEN /\ req' = [req EXCEPT ![r] =
                      Response(req[r].user, req[r].method, outcome, 0, None)]
         /\ UNCHANGED attempts
    ELSE LET res == get_time_remaining(req[r].current_attempt, quiz, now)
         IN  /\ req' = [req EXCEPT ![r] =
                          Response(req[r].user, req[r].method, outcome,
                                   res.obj.id, res.ret)]
             /\ attempts' = IF res.saved THEN Save(attempts, res.obj) ELSE attempts

\* views.py 293-302: too few answers, the form is rendered again
take_quiz_incomplete(r) ==
    /\ req[r].pc = "L301"
    /\ RenderWith(r, "IncompleteAnswers")
    /\ UNCHANGED <<quiz, questions, next_qid, enrollments, now, course_vars>>

\* views.py 304-308: answers and completion time are saved
take_quiz_save_submission(r) ==
    /\ req[r].pc = "L308"
    /\ LET obj == [req[r].current_attempt EXCEPT
                      !.completed_at = now,
                      !.time_taken = (now - req[r].current_attempt.started_at) * 60]
       IN  /\ attempts' = Save(attempts, obj)
           /\ req' = [req EXCEPT ![r].current_attempt = obj, ![r].pc = "L311"]
    /\ UNCHANGED <<quiz, questions, next_qid, enrollments, now, course_vars>>

\* views.py 311, models.py 128-145: the questions are read and the score computed
take_quiz_calculate_score(r) ==
    /\ req[r].pc = "L311"
    /\ req' = [req EXCEPT ![r].pc = "L146",
                 ![r].current_attempt = calculate_score(req[r].current_attempt, questions, quiz)]
    /\ UNCHANGED <<quiz, questions, next_qid, attempts, enrollments, now, course_vars>>

\* models.py 146, views.py 313-315: the scored attempt is saved, redirect to the results
take_quiz_save_score(r) ==
    /\ req[r].pc = "L146"
    /\ attempts' = Save(attempts, req[r].current_attempt)
    /\ req' = [req EXCEPT ![r] = Response(req[r].user, req[r].method, "Submitted",
                                          req[r].current_attempt.id, None)]
    /\ UNCHANGED <<quiz, questions, next_qid, enrollments, now, course_vars>>

\* views.py 317-323: a new attempt is inserted; the unique constraint may refuse it
take_quiz_create_attempt(r) ==
    /\ req[r].pc = "L319"
    /\ Len(attempts) < MaxAttempts
    /\ LET number == req[r].attempts_count + 1
           obj == NewAttempt(Len(attempts) + 1, req[r].user, number, now)
       IN  IF UniqueViolation(attempts, req[r].user, number)
           THEN /\ req' = [req EXCEPT ![r] = Response(req[r].user, req[r].method,
                                                      "IntegrityError", 0, None)]
                /\ UNCHANGED attempts
           ELSE /\ attempts' = Append(attempts, obj)
                /\ req' = [req EXCEPT ![r].current_attempt = obj, ![r].pc = "L338"]
    /\ UNCHANGED <<quiz, questions, next_qid, enrollments, now, course_vars>>

\* views.py 325-339: the quiz page is rendered
take_quiz_render(r) ==
    /\ req[r].pc = "L338"
    /\ RenderWith(r, "Rendered")
    /\ UNCHANGED <<quiz, questions, next_qid, enrollments, now, course_vars>>

\* ------------------------------------------------------------- principals
\* accounts/models.py: User.user_type and the properties derived from it
user_type(user) ==
    CASE user \in Students -> "student"
      [] user \in {"i1", "i2"} -> "instructor"
      [] user = "a1" -> "admin"
      [] OTHER -> ""
is_superuser(user) == user = "a1"
is_authenticated(user) == user # Anonymous
is_instructor(user) == user_type(user) = "instructor"
is_admin_user(user) == user_type(user) = "admin" \/ is_superuser(user)

\* the permission test the management views repeat; a view returns early on
\* `not (user.is_instructor and course.instructor == user) and not user.is_admin_user`
CanManage(user) ==
    (is_instructor(user) /\ course.instructor = user) \/ is_admin_user(user)

\* ------------------------------------------------------ question catalogue
\* views.py 157-178: login_required, the permission test, then a valid
\* question form is saved at the end of the quiz
add_question(user, points, correct_answer) ==
    /\ is_authenticated(user)
    /\ course.exists
    /\ CanManage(user)
    /\ next_qid <= MaxQid
    /\ questions' = questions \cup
            {[id |-> next_qid, points |-> points, correct_answer |-> correct_answer,
              order |-> Cardinality(questions) + 1]}
    /\ next_qid' = next_qid + 1
    /\ UNCHANGED <<quiz, attempts, enrollments, now, req, course_vars>>

\* mutant: the question is deleted and the others keep their numbers
delete_question_no_renumber(user, question) ==
    /\ is_authenticated(user)
    /\ question \in questions
    /\ questions' = questions \ {question}
    /\ UNCHANGED <<quiz, next_qid, attempts, enrollments, now, req, course_vars>>

\* views.py 229-243: login_required and nothing else; the question is deleted
\* and the rest renumbered 1..n by their order (the specifications with this
\* action keep the orders of a quiz distinct)
delete_question(user, question) ==
    /\ is_authenticated(user)
    /\ question \in questions
    /\ LET rest == questions \ {question}
           Rank(q) == Cardinality({o \in rest : o.order < q.order})
       IN  questions' = {[q EXCEPT !.order = Rank(q) + 1] : q \in rest}
    /\ UNCHANGED <<quiz, next_qid, attempts, enrollments, now, req, course_vars>>

\* no Quiz row: the lookup of the lesson's published quiz (views.py 260)
\* finds nothing
NoQuiz == [time_limit |-> 0, passing_score |-> 0, max_attempts |-> 0,
           is_published |-> FALSE]

\* views.py 104-119: login_required, the quiz is looked up, the permission
\* test, and on POST quiz.delete(); Question.quiz (models.py 45) and
\* QuizAttempt.quiz (models.py 102) are on_delete=CASCADE, so the quiz's
\* questions and attempts are deleted with it
delete_quiz(user, method) ==
    /\ is_authenticated(user)
    /\ quiz # NoQuiz
    /\ CanManage(user)
    /\ method = "POST"
    /\ quiz' = NoQuiz
    /\ questions' = {}
    /\ attempts' = << >>
    /\ UNCHANGED <<next_qid, enrollments, now, req, course_vars>>

\* views.py 461-462: Question.objects.filter(id=question_id).update(order=
\* index + 1) for each entry of the posted list in turn, on a table of rows
RECURSIVE UpdateOrders(_, _, _)
UpdateOrders(rows, order, index) ==
    IF index > Len(order) THEN rows
    ELSE UpdateOrders({IF q.id = order[index] THEN [q EXCEPT !.order = index] ELSE q
                         : q \in rows},
                      order, index + 1)

\* views.py 445-464: login_required, POST, the quiz is looked up, the
\* permission test for the quiz's course, then the updates by question id
reorder_questions(user, method, order) ==
    /\ is_authenticated(user)
    /\ method = "POST"
    /\ quiz # NoQuiz
    /\ CanManage(user)
    /\ questions' = UpdateOrders(questions, order, 1)
    /\ other_questions' = UpdateOrders(other_questions, order, 1)
    /\ UNCHANGED <<quiz, next_qid, attempts, enrollments, now, req,
                   course, lessons, enrollment, reviews, resp, course_req>>

\* time passes
Tick ==
    /\ now < MaxTime
    /\ now' = now + 1
    /\ UNCHANGED <<quiz, questions, next_qid, attempts, enrollments, req, course_vars>>

\* the steps of the request in slot r after its arrival
Step(r, posts) ==
    \/ take_quiz_current_attempt(r)
    \/ \E post \in posts : take_quiz_collect_answers(r, post)
    \/ take_quiz_incomplete(r)
    \/ take_quiz_save_submission(r)
    \/ take_quiz_calculate_score(r)
    \/ take_quiz_save_score(r)
    \/ take_quiz_create_attempt(r)
    \/ take_quiz_render(r)

\* courses/models.py: a published course of instructor i1 without ratings
NewCourse ==
    [exists |-> TRUE, instructor |-> "i1", status |-> "published",
     total_enrollments |-> 0, average_rating |-> 0]

\* enrollments/models.py 19-23: the column defaults of an Enrollment
NewEnrollment == [progress |-> 0, status |-> "active", completed_at |-> None]

\* no lesson_detail request was answered yet
NoResponse ==
    [user |-> "", lesson |-> [id |-> 0, is_free_preview |-> FALSE], outcome |-> ""]

\* no enrollment or review request is being served
IdleCourseRequest ==
    [pc |-> "idle", view |-> "", user |-> "", method |-> "", rating |-> 0,
     course |-> NewCourse, existing_review |-> FALSE, outcome |-> ""]

\* the database of the one course, with no request in flight
InitCourse(quizzes, catalogues, enrolled) ==
    /\ quiz \in quizzes
    /\ questions \in catalogues
    /\ next_qid = 1 + Cardinality(questions)
    /\ attempts = << >>
    /\ enrollments = enrolled
    /\ now = 0
    /\ req = [r \in Requests |-> IdleRequest]
    /\ course = [NewCourse EXCEPT !.total_enrollments = Cardinality(enrolled)]
    /\ lessons = {}
    /\ enrollment = [s \in enrolled |-> NewEnrollment]
    /\ reviews = << >>
    /\ resp = NoResponse
    /\ course_req = [r \in Requests |-> IdleCourseRequest]

\* ... and no other course with a quiz
InitWith(quizzes, catalogues, enrolled) ==
    /\ InitCourse(quizzes, catalogues, enrolled)
    /\ other_questions = {}

Question1 == [id |-> 1, points |-> 2, correct_answer |-> "A", order |-> 1]

\* request bodies for the one-question quiz: nothing, or question_1 answered
Posts1 == UNION {[K -> {"A", "b"}] : K \in SUBSET {Str(1)}}

\* ---- Spec: concurrent requests of the students, quiz without a time limit
Init ==
    InitWith([time_limit : {0}, passing_score : {60},
              max_attempts : AttemptCaps, is_published : {TRUE}],
             {{Question1}}, Students)

Next ==
    \/ \E r \in Requests, user \in Students, method \in Methods :
         take_quiz(r, user, method)
    \/ \E r \in Requests : Step(r, Posts1)

Spec == Init /\ [][Next]_vars

\* ---- SpecTimed: concurrent requests of one student, quiz with a time limit
InitTimed ==
    InitWith([time_limit : {1}, passing_score : {60},
              max_attempts : {1, 2}, is_published : BOOLEAN],
             {{Question1}}, {"s1"})

NextTimed ==
    \/ \E r \in Requests, user \in Students, method \in Methods :
         take_quiz(r, user, method)
    \/ \E r \in Requests : Step(r, Posts1)
    \/ Tick

SpecTimed == InitTimed /\ [][NextTimed]_vars

\* ---- SpecSeq: one request at a time while the instructor edits the questions
InitSeq ==
    InitWith([time_limit : {0}, passing_score : PassingScores,
              max_attempts : {2}, is_published : {TRUE}],
             {{}}, {"s1"})

NextSeq ==
    \/ \E method \in Methods : take_quiz("r1", "s1", method)
    \/ Step("r1", PostBodies)
    \/ \E points \in PointValues, correct_answer \in CORRECT_CHOICES :
         add_question("i1", points, correct_answer)
    \/ \E question \in questions : delete_question("i1", question)

SpecSeq == InitSeq /\ [][NextSeq]_vars

\* ------------------------------------------------------------ quiz results
\* Python's None where an answer string is expected
NoAnswer == "None"

\* views.py 354-364: the loop of quiz_results over the questions by order;
\* one entry per question
RECURSIVE results(_, _)
results(qs, answers) ==
    IF qs = {} THEN << >>
    ELSE LET question == CHOOSE q \in qs : \A o \in qs : q.order <= o.order
             key == Str(question.id)
             user_answer == IF key \in DOMAIN answers THEN answers[key] ELSE NoAnswer
             is_correct == IF user_answer \notin {NoAnswer, ""}
                           THEN user_answer = question.correct_answer
                           ELSE FALSE
         IN  <<[question |-> question.id, user_answer |-> user_answer,
                is_correct |-> is_correct,
                correct_answer |-> question.correct_answer,
                points |-> IF is_correct THEN question.points ELSE 0]>>
             \o results(qs \ {question}, answers)

\* views.py 342-372: login_required, the user's own attempt (404 otherwise),
\* the breakdown is rendered
quiz_results(user, attempt_id) ==
    /\ is_authenticated(user)
    /\ attempt_id \in DOMAIN attempts
    /\ attempts[attempt_id].student = user
    /\ resp' = [user |-> user, attempt |-> attempts[attempt_id],
                outcome |-> "Results",
                results |-> results(questions, attempts[attempt_id].answers)]
    /\ UNCHANGED <<quiz, questions, next_qid, attempts, enrollments, now, req,
                   course, lessons, enrollment, reviews, course_req,
                   other_questions>>

\* a second question, answered by option B
Question2 == [id |-> 2, points |-> 3, correct_answer |-> "B", order |-> 2]

\* request bodies whose fields may be left empty
ResultPosts ==
    UNION {[K -> AnswerValues \cup {""}] : K \in SUBSET {Str(1), Str(2)}}

\* ---- SpecResults: one student takes the quiz and reads the results
InitResults ==
    InitWith([time_limit : {0}, passing_score : {60},
              max_attempts : {0}, is_published : {TRUE}],
             {{Question1}, {Question1, Question2}}, {"s1"})

NextResults ==
    \/ \E method \in Methods : take_quiz("r1", "s1", method)
    \/ Step("r1", ResultPosts)
    \/ \E user \in Students, attempt_id \in 1..MaxAttempts :
         quiz_results(user, attempt_id)

SpecResults == InitResults /\ [][NextResults]_vars

\* ---- SpecReorder: the instructor adds and reorders questions while
\* another course has a quiz with a question of its own
OtherQuestion == [id |-> MaxQid + 1, points |-> 1, correct_answer |-> "A", order |-> 1]

\* the lists of question ids a reorder request may post
OrderLists == UNION {[1..n -> 1..(MaxQid + 1)] : n \in 0..2}

InitReorder ==
    /\ InitCourse([time_limit : {0}, passing_score : {60},
                   max_attempts : {0}, is_published : {TRUE}],
                  {{}}, {})
    /\ other_questions = {OtherQuestion}

NextReorder ==
    \/ \E points \in PointValues, correct_answer \in CORRECT_CHOICES :
         add_question("i1", points, correct_answer)
    \/ \E user \in Principals, method \in Methods, order \in OrderLists :
         reorder_questions(user, method, order)

SpecReorder == InitReorder /\ [][NextReorder]_vars

\* ---- SpecHistory: one request at a time while the instructor deletes
\* questions or the quiz
InitHistory ==
    InitWith([time_limit : {0}, passing_score : {60},
              max_attempts : {0, 2}, is_published : {TRUE}],
             {{Question1}}, {"s1"})

NextHistory ==
    \/ \E user \in Students, method \in Methods : take_quiz("r1", user, method)
    \/ Step("r1", Posts1)
    \/ \E question \in questions : delete_question("i1", question)
    \/ Free("r1") /\ \E user \in Principals, method \in Methods :
                        delete_quiz(user, method)

SpecHistory == InitHistory /\ [][NextHistory]_vars

\* ================================================== the course side
\* what a course-side view taken as one step leaves alone: the quiz-side
\* variables and the requests in flight
quiz_vars == <<quiz, next_qid, now, req, course_req, other_questions>>

\* ---------------------------------------------------------- lesson access
\* mutant: any logged-in user may read any lesson
can_access_any_user(user, lesson) == lesson.is_free_preview \/ is_authenticated(user)

\* courses/views.py 196-226: the access decision of lesson_detail
can_access(user, lesson) ==
    IF lesson.is_free_preview
    THEN TRUE
    ELSE IF is_authenticated(user)
    THEN IF is_instructor(user) /\ course.instructor = user THEN TRUE
         ELSE IF is_admin_user(user) THEN TRUE
         ELSE user \in enrollments
    ELSE FALSE

\* courses/views.py 190-230: login_required sends an anonymous request to the
\* login page before the view runs; the view redirects when can_access is false
lesson_detail(user, lesson) ==
    /\ course.exists
    /\ lesson \in lessons
    /\ resp' = [user |-> user, lesson |-> lesson,
                outcome |-> IF ~is_authenticated(user) THEN "LoginRequired"
                            ELSE IF can_access(user, lesson) THEN "Allowed"
                            ELSE "Denied"]
    /\ UNCHANGED <<quiz_vars, questions, attempts, enrollments,
                   course, lessons, enrollment, reviews>>

\* ------------------------------------------------------------ enrollments
\* mutant: the counter is incremented instead of recounted
EnrollmentCountDrift(rows) == course.total_enrollments + 1

\* enrollments/models.py 53: Enrollment.objects.filter(course=course).count()
EnrollmentCount(rows) == Cardinality(rows)

\* enrollments/models.py 47-55: update_course_enrollment_count
update_course_enrollment_count(rows) ==
    [course EXCEPT !.total_enrollments = EnrollmentCount(rows)]

\* enrollments/views.py 20-95: login_required, a published course (404
\* otherwise), nothing to do for an enrolled user; Enrollment.objects.create
\* runs Enrollment.save (models.py 33-39), which recounts
enroll_course(user) ==
    /\ is_authenticated(user)
    /\ course.exists /\ course.status = "published"
    /\ user \notin enrollments
    /\ enrollments' = enrollments \cup {user}
    /\ enrollment' = [s \in enrollments' |->
                        IF s = user THEN NewEnrollment ELSE enrollment[s]]
    /\ course' = update_course_enrollment_count(enrollments')
    /\ UNCHANGED <<quiz_vars, questions, attempts, lessons, reviews, resp>>

\* enrollments/models.py 57-68: Enrollment.update_progress before its save()
update_progress(self, total_lessons) ==
    LET Min(a, b) == IF a < b THEN a ELSE b
        progress == IF total_lessons = 0 THEN 0 ELSE Min(self.progress + 10, 100)
        done == progress >= 100 /\ self.status # "completed"
    IN  [progress |-> progress,
         status |-> IF done THEN "completed" ELSE self.status,
         completed_at |-> IF done THEN now ELSE self.completed_at]

\* enrollments/views.py 115-123: the user's own enrollment (404 otherwise); a
\* POST calls update_progress, whose save() also recounts (models.py 70, 33-39)
update_progress_view(user, method) ==
    /\ is_authenticated(user)
    /\ user \in enrollments
    /\ method = "POST"
    /\ enrollment' = [enrollment EXCEPT
                        ![user] = update_progress(enrollment[user], Cardinality(lessons))]
    /\ course' = update_course_enrollment_count(enrollments)
    /\ UNCHANGED <<quiz_vars, questions, attempts, enrollments, lessons, reviews, resp>>

\* enrollments/models.py 41-45: Enrollment.delete, which recounts
Enrollment_delete(user) ==
    /\ user \in enrollments
    /\ enrollments' = enrollments \ {user}
    /\ enrollment' = [s \in enrollments' |-> enrollment[s]]
    /\ course' = update_course_enrollment_count(enrollments')
    /\ UNCHANGED <<quiz_vars, questions, attempts, lessons, reviews, resp>>

\* ---------------------------------------------------------------- lessons
\* courses/views.py 307-325: login_required, the permission test, a valid
\* LessonForm is saved
lesson_create(user, is_free_preview) ==
    /\ is_authenticated(user)
    /\ course.exists
    /\ CanManage(user)
    /\ Cardinality(lessons) < MaxLessons
    /\ LET used == {l.id : l \in lessons}
           id == CHOOSE i \in 1..MaxLessons :
                     i \notin used /\ \A j \in 1..(i - 1) : j \in used
       IN  lessons' = lessons \cup {[id |-> id, is_free_preview |-> is_free_preview]}
    /\ UNCHANGED <<quiz_vars, questions, attempts, enrollments,
                   course, enrollment, reviews, resp>>

\* courses/views.py 335-352
lesson_edit(user, lesson, is_free_preview) ==
    /\ is_authenticated(user)
    /\ course.exists
    /\ lesson \in lessons
    /\ CanManage(user)
    /\ lessons' = (lessons \ {lesson})
                     \cup {[lesson EXCEPT !.is_free_preview = is_free_preview]}
    /\ UNCHANGED <<quiz_vars, questions, attempts, enrollments,
                   course, enrollment, reviews, resp>>

\* courses/views.py 363-378
lesson_delete(user, lesson) ==
    /\ is_authenticated(user)
    /\ course.exists
    /\ lesson \in lessons
    /\ CanManage(user)
    /\ lessons' = lessons \ {lesson}
    /\ UNCHANGED <<quiz_vars, questions, attempts, enrollments,
                   course, enrollment, reviews, resp>>

\* ----------------------------------------------------------------- course
\* courses/views.py 21-24: InstructorRequiredMixin.test_func
test_func(user) == is_authenticated(user) /\ is_instructor(user)

\* courses/views.py 162-164, 180-182: get_queryset of the update and delete
\* views, Course.objects.filter(instructor=self.request.user)
InQueryset(user) == course.exists /\ course.instructor = user

\* courses/views.py 150-172: a valid form changes the course's fields
CourseUpdateView(user, status) ==
    /\ test_func(user)
    /\ InQueryset(user)
    /\ course' = [course EXCEPT !.status = status]
    /\ UNCHANGED <<quiz_vars, questions, attempts, enrollments,
                   lessons, enrollment, reviews, resp>>

\* the Course row is gone
NoCourse == [NewCourse EXCEPT !.exists = FALSE]

\* courses/views.py 174-187: the course is deleted, and by on_delete=CASCADE
\* its lessons, enrollments, reviews, quiz, questions and attempts with it
CourseDeleteView(user) ==
    /\ test_func(user)
    /\ InQueryset(user)
    /\ course' = NoCourse
    /\ lessons' = {} /\ enrollments' = {} /\ enrollment' = << >>
    /\ reviews' = << >> /\ questions' = {} /\ attempts' = << >>
    /\ UNCHANGED <<quiz_vars, resp>>

\* ---------------------------------------------------------------- reviews
\* the sum of the ratings of the reviews of the students in S
RECURSIVE SumRatings(_, _)
SumRatings(rows, S) ==
    IF S = {} THEN 0
    ELSE LET s == CHOOSE x \in S : TRUE
         IN  rows[s] + SumRatings(rows, S \ {s})

\* mutant: the mean is cut off after two decimals
Truncate2(sum, n) == (100 * sum) \div n

\* round(avg, 2) of avg = sum / n, in hundredths: the nearest hundredth, a tie
\* going to the even one
Round2(sum, n) ==
    LET h == (100 * sum) \div n
        rem == 100 * sum - h * n
    IN  IF 2 * rem > n THEN h + 1
        ELSE IF 2 * rem = n /\ h % 2 = 1 THEN h + 1
        ELSE h

\* courses/models.py 227-233: update_course_rating; Avg over no rows and an
\* average of 0 both give 0 (total_reviews is not a column of Course)
update_course_rating(rows) ==
    LET n == Cardinality(DOMAIN rows)
        sum == SumRatings(rows, DOMAIN rows)
    IN  [course EXCEPT !.average_rating =
            IF n = 0 \/ sum = 0 THEN 0 ELSE Round2(sum, n)]

\* courses/views.py 728-772: login_required, an enrolled user; a POST updates
\* the user's review or creates it; CourseReview.save (models.py 222-225)
\* recomputes the course's rating
add_course_review(user, method, rating) ==
    /\ is_authenticated(user)
    /\ course.exists
    /\ user \in enrollments
    /\ method = "POST"
    /\ reviews' = [s \in DOMAIN reviews \cup {user} |->
                     IF s = user THEN rating ELSE reviews[s]]
    /\ course' = update_course_rating(reviews')
    /\ UNCHANGED <<quiz_vars, questions, attempts, enrollments,
                   lessons, enrollment, resp>>

\* the users who enrol: the students and an instructor of other courses
Reviewers == Students \cup {"i2"}

\* ------------------------------------- enrollment and review requests in steps
\* Each query and each save() of a request is a step of its own; the request
\* keeps the Course object it loaded, and course.save() writes every column
\* of the row from that object.
CourseFree(r) == course_req[r].pc \in {"idle", "done"}
CourseMayStart(r) == CourseFree(r) /\ (r = "r2" => ~CourseFree("r1"))

\* the view returned
CourseResponse(r, outcome) ==
    [course_req EXCEPT ![r].pc = "done", ![r].outcome = outcome]

\* enrollments/views.py 20-22: login_required, the published course is loaded
enroll_course_get_course(r, user) ==
    /\ CourseMayStart(r)
    /\ is_authenticated(user)
    /\ course.exists /\ course.status = "published"
    /\ course_req' = [course_req EXCEPT ![r] =
          [IdleCourseRequest EXCEPT !.pc = "L24", !.view = "enroll_course",
                                    !.user = user, !.method = "POST",
                                    !.course = course]]
    /\ UNCHANGED <<quiz, questions, next_qid, attempts, enrollments, now, req,
                   course, lessons, enrollment, reviews, resp, other_questions>>

\* enrollments/views.py 24-26: nothing to do for an enrolled user
enroll_course_exists(r) ==
    /\ course_req[r].pc = "L24"
    /\ course_req' = IF course_req[r].user \in enrollments
                     THEN CourseResponse(r, "AlreadyEnrolled")
                     ELSE [course_req EXCEPT ![r].pc = "L29"]
    /\ UNCHANGED <<quiz, questions, next_qid, attempts, enrollments, now, req,
                   course, lessons, enrollment, reviews, resp, other_questions>>

\* enrollments/views.py 29-32, 92-93, models.py 36: the Enrollment row is
\* inserted; unique_together (student, course) may refuse it, which the view
\* catches
enroll_course_create(r) ==
    /\ course_req[r].pc = "L29"
    /\ LET user == course_req[r].user
       IN  IF user \in enrollments
           THEN /\ course_req' = CourseResponse(r, "IntegrityError")
                /\ UNCHANGED <<enrollments, enrollment>>
           ELSE /\ enrollments' = enrollments \cup {user}
                /\ enrollment' = [s \in enrollments' |->
                                    IF s = user THEN NewEnrollment ELSE enrollment[s]]
                /\ course_req' = [course_req EXCEPT ![r].pc = "L53"]
    /\ UNCHANGED <<quiz, questions, next_qid, attempts, now, req,
                   course, lessons, reviews, resp, other_questions>>

\* enrollments/models.py 53-54: the rows are counted into the loaded object
update_course_enrollment_count_count(r) ==
    /\ course_req[r].pc = "L53"
    /\ course_req' = [course_req EXCEPT ![r].pc = "L55",
          ![r].course.total_enrollments = EnrollmentCount(enrollments)]
    /\ UNCHANGED <<quiz, questions, next_qid, attempts, enrollments, now, req,
                   course, lessons, enrollment, reviews, resp, other_questions>>

\* enrollments/models.py 55, views.py 90-95: course.save(), redirect
update_course_enrollment_count_save(r) ==
    /\ course_req[r].pc = "L55"
    /\ course' = course_req[r].course
    /\ course_req' = CourseResponse(r, "Enrolled")
    /\ UNCHANGED <<quiz, questions, next_qid, attempts, enrollments, now, req,
                   lessons, enrollment, reviews, resp, other_questions>>

\* courses/views.py 728-731: login_required, the course is loaded
add_course_review_get_course(r, user, method, rating) ==
    /\ CourseMayStart(r)
    /\ is_authenticated(user)
    /\ course.exists
    /\ course_req' = [course_req EXCEPT ![r] =
          [IdleCourseRequest EXCEPT !.pc = "L734", !.view = "add_course_review",
                                    !.user = user, !.method = method,
                                    !.rating = rating, !.course = course]]
    /\ UNCHANGED <<quiz, questions, next_qid, attempts, enrollments, now, req,
                   course, lessons, enrollment, reviews, resp, other_questions>>

\* courses/views.py 734-741: the enrollment check and the lookup of the
\* user's review (no view deletes an Enrollment, so the two reads are taken
\* together); a GET renders the form
add_course_review_existing(r) ==
    /\ course_req[r].pc = "L734"
    /\ LET user == course_req[r].user
           existing_review == user \in DOMAIN reviews
       IN  course_req' =
             IF user \notin enrollments THEN CourseResponse(r, "NotEnrolled")
             ELSE IF course_req[r].method # "POST" THEN CourseResponse(r, "Form")
             ELSE [course_req EXCEPT ![r].existing_review = existing_review,
                                     ![r].pc = "L223"]
    /\ UNCHANGED <<quiz, questions, next_qid, attempts, enrollments, now, req,
                   course, lessons, enrollment, reviews, resp, other_questions>>

\* courses/views.py 749-769, models.py 223: the review row is updated, or
\* inserted; unique_together (course, student) may refuse the insert, which
\* the view does not catch
add_course_review_save(r) ==
    /\ course_req[r].pc = "L223"
    /\ LET user == course_req[r].user
       IN  IF ~course_req[r].existing_review /\ user \in DOMAIN reviews
           THEN /\ course_req' = CourseResponse(r, "IntegrityError")
                /\ UNCHANGED reviews
           ELSE /\ reviews' = [s \in DOMAIN reviews \cup {user} |->
                                 IF s = user THEN course_req[r].rating
                                 ELSE reviews[s]]
                /\ course_req' = [course_req EXCEPT ![r].pc = "L230"]
    /\ UNCHANGED <<quiz, questions, next_qid, attempts, enrollments, now, req,
                   course, lessons, enrollment, resp, other_questions>>

\* courses/models.py 230-231: the mean is computed into self.course: the
\* object the view loaded for a new review, a row loaded now for a review that
\* came from the lookup
update_course_rating_aggregate(r) ==
    /\ course_req[r].pc = "L230"
    /\ LET self_course == IF course_req[r].existing_review THEN course
                          ELSE course_req[r].course
       IN  course_req' = [course_req EXCEPT ![r].pc = "L233",
             ![r].course = [self_course EXCEPT !.average_rating =
                               update_course_rating(reviews).average_rating]]
    /\ UNCHANGED <<quiz, questions, next_qid, attempts, enrollments, now, req,
                   course, lessons, enrollment, reviews, resp, other_questions>>

\* courses/models.py 233, views.py 772: course.save(), redirect
update_course_rating_save(r) ==
    /\ course_req[r].pc = "L233"
    /\ course' = course_req[r].course
    /\ course_req' = CourseResponse(r, "Reviewed")
    /\ UNCHANGED <<quiz, questions, next_qid, attempts, enrollments, now, req,
                   lessons, enrollment, reviews, resp, other_questions>>

\* the steps of the request in slot r after it loaded the course
CourseStep(r) ==
    \/ enroll_course_exists(r)
    \/ enroll_course_create(r)
    \/ update_course_enrollment_count_count(r)
    \/ update_course_enrollment_count_save(r)
    \/ add_course_review_existing(r)
    \/ add_course_review_save(r)
    \/ update_course_rating_aggregate(r)
    \/ update_course_rating_save(r)

\* ---- SpecAccess: every kind of principal reads lessons and manages the course
InitAccess ==
    InitWith([time_limit : {0}, passing_score : {60},
              max_attempts : {0}, is_published : {TRUE}],
             {{}}, {})

NextAccess ==
    \/ \E user \in Principals, lesson \in lessons : lesson_detail(user, lesson)
    \/ \E user \in Reviewers : enroll_course(user)
    \/ \E user \in Principals, is_free_preview \in BOOLEAN :
         lesson_create(user, is_free_preview)
    \/ \E user \in Principals, lesson \in lessons, is_free_preview \in BOOLEAN :
         lesson_edit(user, lesson, is_free_preview)
    \/ \E user \in Principals, lesson \in lessons : lesson_delete(user, lesson)
    \/ \E user \in Principals, status \in CourseStatuses : CourseUpdateView(user, status)
    \/ \E user \in Principals : CourseDeleteView(user)

SpecAccess == InitAccess /\ [][NextAccess]_vars

\* ---- SpecManage: every kind of principal calls the management views
NextManage ==
    \/ \E user \in Principals, is_free_preview \in BOOLEAN :
         lesson_create(user, is_free_preview)
    \/ \E user \in Principals, lesson \in lessons, is_free_preview \in BOOLEAN :
         lesson_edit(user, lesson, is_free_preview)
    \/ \E user \in Principals, lesson \in lessons : lesson_delete(user, lesson)
    \/ \E user \in Principals : add_question(user, 2, "A")
    \/ \E user \in Principals, question \in questions : delete_question(user, question)
    \/ \E user \in Principals, status \in CourseStatuses : CourseUpdateView(user, status)
    \/ \E user \in Principals : CourseDeleteView(user)

SpecManage == InitAccess /\ [][NextManage]_vars

\* ---- SpecEnroll: students enrol, report progress, rate the course and are
\* removed while the instructor adds and deletes lessons
NextEnroll ==
    \/ \E user \in Students : enroll_course(user)
    \/ \E user \in Students, method \in Methods : update_progress_view(user, method)
    \/ \E user \in Students : Enrollment_delete(user)
    \/ lesson_create("i1", FALSE)
    \/ \E lesson \in lessons : lesson_delete("i1", lesson)
    \/ \E user \in Students : add_course_review(user, "POST", 5)

SpecEnroll == InitAccess /\ [][NextEnroll]_vars

\* ---- SpecReview: enrolled users rate the course
NextReview ==
    \/ \E user \in Reviewers : enroll_course(user)
    \/ \E user \in Reviewers, method \in Methods, rating \in Ratings :
         add_course_review(user, method, rating)

SpecReview == InitAccess /\ [][NextReview]_vars

\* ---- SpecRace: concurrent enrollment and review requests of the students
InitRace ==
    InitWith([time_limit : {0}, passing_score : {60},
              max_attempts : {0}, is_published : {TRUE}],
             {{}}, {"s2"})

NextRace ==
    \/ \E r \in Requests, user \in Students : enroll_course_get_course(r, user)
    \/ \E r \in Requests, user \in Students, method \in Methods,
          rating \in {2, 5} : add_course_review_get_course(r, user, method, rating)
    \/ \E r \in Requests : CourseStep(r)

SpecRace == InitRace /\ [][NextRace]_vars

\* ================================================================== claims
\* the students' attempts at the quiz
AttemptsOf(s) == {i \in DOMAIN attempts : attempts[i].student = s}
Busy(r) == ~Free(r)

\* C1: in every reachable state every (student, quiz) pair has at most one
\* attempt with status in_progress, also when take_quiz requests of the same
\* student interleave.
C1_AtMostOneInProgress ==
    \A s \in Students :
        Cardinality({i \in AttemptsOf(s) : attempts[i].status = "in_progress"}) <= 1

\* C2: the attempt cap is never applied to a submission: a POST of a student
\* who has an attempt in progress is not answered "maximum number of attempts
\* reached", whatever max_attempts is.
C2_SubmitNeverCapped ==
    [][\A r \in Requests, s \in Students :
         (take_quiz(r, s, "POST") /\ InProgressOf(attempts, s) # {})
             => req'[r].outcome # "MaxAttemptsReached"]_vars

\* ---- scoring (SpecSeq)
\* the sum of the points of a set of questions
RECURSIVE SumPoints(_)
SumPoints(qs) ==
    IF qs = {} THEN 0
    ELSE LET q == CHOOSE x \in qs : TRUE IN q.points + SumPoints(qs \ {q})

\* the questions of qs answered with their correct letter, in either case
Lower(c) == CASE c = "A" -> "a" [] c = "B" -> "b" [] c = "C" -> "c" [] c = "D" -> "d"
AnsweredCorrectly(qs, answers) ==
    {q \in qs : /\ Str(q.id) \in DOMAIN answers
                /\ answers[Str(q.id)] \in {q.correct_answer, Lower(q.correct_answer)}}

\* the attempt of slot r right after the scoring step
Scored(r) == req'[r].current_attempt

\* C3 as claimed: after scoring of any attempt, passed is true exactly when
\* percentage >= passing_score, for every quiz and every passing_score.
C3_PassedIffThresholdAlways ==
    [][\A r \in Requests :
         take_quiz_calculate_score(r)
             => (Scored(r).passed <=> PctGE(Scored(r).percentage, quiz.passing_score))]_vars

\* C3 amended: after scoring of an attempt, passed is true exactly when
\* percentage >= passing_score, unless the quiz's points total 0 and
\* passing_score is 0 (then percentage stays 0 and passed stays false).
C3_PassedIffThreshold ==
    [][\A r \in Requests :
         (take_quiz_calculate_score(r)
            /\ (SumPoints(questions) > 0 \/ quiz.passing_score > 0))
             => (Scored(r).passed <=> PctGE(Scored(r).percentage, quiz.passing_score))]_vars

\* C3 witness: an attempt scored exactly at the threshold of 60, and passed
C3_Witness ==
    \E r \in Requests :
        /\ req[r].pc = "L146"
        /\ quiz.passing_score = 60
        /\ PctEq(req[r].current_attempt.percentage, 60)
        /\ req[r].current_attempt.passed

\* C4: for a quiz with a question and total points > 0, scoring sets score to
\* the points of exactly the questions answered with their correct letter
\* (either case), percentage to score / total * 100 and passed to
\* percentage >= passing_score; all correct gives 100, all wrong gives 0.
C4_ScoringIsCorrect ==
    [][\A r \in Requests :
         (take_quiz_calculate_score(r) /\ questions # {} /\ SumPoints(questions) > 0)
             => LET right == AnsweredCorrectly(questions, req[r].current_attempt.answers)
                    total == SumPoints(questions)
                    a == Scored(r)
                IN  /\ a.score = SumPoints(right)
                    /\ a.percentage[1] * total = 100 * a.score * a.percentage[2]
                    /\ a.passed <=> (a.percentage[1] >= quiz.passing_score * a.percentage[2])
                    /\ right = questions => PctEq(a.percentage, 100)
                    /\ right = {} => PctEq(a.percentage, 0)
                    /\ a.status = "completed"]_vars

\* C4 witness: two questions of 2 and 3 points, the 3-point one answered
\* correctly in lower case: score 3, 60 percent, passed at the threshold 60
C4_Witness ==
    \E r \in Requests :
        /\ req[r].pc = "L146"
        /\ {q.points : q \in questions} = {2, 3}
        /\ req[r].current_attempt.score = 3
        /\ PctEq(req[r].current_attempt.percentage, 60)
        /\ req[r].current_attempt.passed
        /\ \E k \in DOMAIN req[r].current_attempt.answers :
               req[r].current_attempt.answers[k] = "b"

\* C5: submitting an attempt on a quiz with zero questions completes it without
\* a fault: every request body is accepted, scoring leaves score 0,
\* percentage 0 and passed false, and that is what is saved.
C5_ZeroQuestionSubmit ==
    [][\A r \in Requests :
         /\ \A post \in PostBodies :
              (take_quiz_collect_answers(r, post) /\ questions = {})
                  => req'[r].pc = "L308"
         /\ (take_quiz_calculate_score(r) /\ questions = {})
              => /\ Scored(r).status = "completed"
                 /\ Scored(r).score = 0
                 /\ PctEq(Scored(r).percentage, 0)
                 /\ ~Scored(r).passed
         /\ take_quiz_save_score(r)
              => /\ attempts'[req[r].current_attempt.id] = req[r].current_attempt
                 /\ req'[r].outcome = "Submitted"]_vars

\* C5 witness: a quiz that never had a question, and a submitted attempt on it
C5_Witness ==
    /\ questions = {}
    /\ next_qid = 1
    /\ \E r \in Requests, i \in DOMAIN attempts :
         /\ req[r].pc = "done" /\ req[r].outcome = "Submitted" /\ req[r].attempt_id = i
         /\ attempts[i].status = "completed"
         /\ attempts[i].score = 0 /\ ~attempts[i].passed
         /\ attempts[i].completed_at # None

\* ---- attempt lifecycle under concurrent requests (Spec, SpecTimed)
\* C6: the attempt_number values of the attempts of one (student, quiz) pair
\* are exactly 1..k for the k attempts the pair has: no gaps, no duplicates.
C6_AttemptNumbersDense ==
    \A s \in Students :
        {attempts[i].attempt_number : i \in AttemptsOf(s)}
            = 1..Cardinality(AttemptsOf(s))

\* C6 witness: a student has attempts 1 and 2, and a concurrent creation of
\* the same student was refused by the unique constraint
C6_Witness ==
    \E r \in Requests :
        /\ req[r].pc = "done" /\ req[r].outcome = "IntegrityError"
        /\ Cardinality(AttemptsOf(req[r].user)) = 2

\* C7: an attempt goes in_progress -> completed exactly once: once completed
\* it is never in_progress again and its answers, score, percentage and
\* passed never change.
C7_CompletedIsFinal ==
    [][\A i \in DOMAIN attempts :
         attempts[i].status = "completed"
             => /\ attempts'[i].status = "completed"
                /\ attempts'[i].answers = attempts[i].answers
                /\ attempts'[i].score = attempts[i].score
                /\ attempts'[i].percentage = attempts[i].percentage
                /\ attempts'[i].passed = attempts[i].passed]_vars

\* the time limit of q has run out for an attempt started at started_at
TimeIsUp(q, started_at) == q.time_limit > 0 /\ now - started_at >= q.time_limit

\* the steps of take_quiz that ask for the time remaining
AsksTimeRemaining(r) == take_quiz_render(r) \/ take_quiz_incomplete(r)

\* C8: a time-remaining query on an in_progress attempt whose time limit has
\* run out sets it completed and returns 0; a submit request the student
\* makes afterwards does not reopen, re-score or overwrite that attempt.
C8_ExpiredStaysClosed ==
    [][\A r \in Requests :
         /\ (/\ AsksTimeRemaining(r)
             /\ req[r].current_attempt.id # 0
             /\ TimeIsUp(quiz, req[r].current_attempt.started_at))
                => /\ attempts'[req[r].current_attempt.id].status = "completed"
                   /\ req'[r].time_remaining = 0
         /\ (Step(r, Posts1) /\ req[r].method = "POST")
                => \A i \in req[r].expired_at_arrival :
                       /\ attempts[i].status = "completed"
                              => attempts'[i].status = "completed"
                       /\ attempts'[i].answers = attempts[i].answers
                       /\ attempts'[i].score = attempts[i].score
                       /\ attempts'[i].percentage = attempts[i].percentage
                       /\ attempts'[i].passed = attempts[i].passed]_vars

C10_AcceptedAnswersCoverQuiz ==
    [][\A r \in Requests, post \in PostBodies :
         (take_quiz_collect_answers(r, post) /\ req'[r].pc = "L308")
             => \A q \in questions : Str(q.id) \in DOMAIN req'[r].current_attempt.answers]_vars

\* ---- starting and resuming attempts
\* the outcomes of a refused take-request
Refusals == {"NotEnrolled", "QuizUnpublished", "MaxAttemptsReached"}

\* C11: an attempt is created only for an enrolled student on a published quiz
\* whose cap is 0 or above the student's attempt count; a take-request that
\* fails one of these is refused with NotEnrolled, QuizUnpublished or
\* MaxAttemptsReached, creates no attempt and changes no attempt.
C11_CreateOnlyWhenAllowed ==
    [][/\ Len(attempts') > Len(attempts)
            => LET a == attempts'[Len(attempts')]
               IN  /\ a.student \in enrollments
                   /\ quiz.is_published
                   /\ \/ quiz.max_attempts = 0
                      \/ AttemptsCount(attempts, a.student) < quiz.max_attempts
       /\ \A r \in Requests, user \in Students, method \in Methods :
            (/\ take_quiz(r, user, method)
             /\ \/ user \notin enrollments
                \/ ~quiz.is_published
                \/ /\ quiz.max_attempts > 0
                   /\ AttemptsCount(attempts, user) >= quiz.max_attempts)
                => /\ req'[r].pc = "done"
                   /\ req'[r].outcome \in Refusals
                   /\ attempts' = attempts]_vars

\* C11 witness: a student who is not enrolled and a student at the cap were
\* both refused, and the attempts that count against the cap exist
C11_Witness ==
    \E r1 \in Requests, r2 \in Requests :
        /\ req[r1].pc = "done" /\ req[r1].outcome = "NotEnrolled"
        /\ req[r2].pc = "done" /\ req[r2].outcome = "MaxAttemptsReached"
        /\ AttemptsCount(attempts, req[r2].user) = quiz.max_attempts
        /\ AttemptsCount(attempts, req[r1].user) = 0

\* C12: whatever max_attempts is, a take-request (GET) of a student who has an
\* in_progress attempt is not refused, shows that attempt and creates none.
C12_TakeIsIdempotent ==
    [][\A r \in Requests :
         /\ \A s \in Students :
              (take_quiz(r, s, "GET") /\ InProgressOf(attempts, s) # {})
                  => req'[r].pc = "L273"
         /\ (/\ req[r].method = "GET"
             /\ InProgressOf(attempts, req[r].user) # {}
             /\ Step(r, Posts1))
                => /\ Len(attempts') = Len(attempts)
                   /\ req'[r].pc = "done"
                          => req'[r].attempt_id \in InProgressOf(attempts, req[r].user)]_vars

\* ---- lesson access (SpecAccess) and course management (SpecManage)
\* C13: a lesson with is_free_preview = true is accessible to every principal,
\* the anonymous one included: the answer of lesson_detail is Allowed.
C13_FreePreviewOpenToAll ==
    [][\A user \in Principals, lesson \in lessons :
         (lesson_detail(user, lesson) /\ lesson.is_free_preview)
             => resp'.outcome = "Allowed"]_vars

\* C14: a lesson with is_free_preview = false is accessible exactly to a
\* logged-in principal who is the course's instructor, an administrator or
\* enrolled in the course; and an Enrollment, once created, stays, so an
\* enrolled student keeps the access.
C14_AccessIffEntitled ==
    [][/\ \A user \in Principals, lesson \in lessons :
            (lesson_detail(user, lesson) /\ ~lesson.is_free_preview)
                => (resp'.outcome = "Allowed"
                      <=> /\ user # Anonymous
                          /\ \/ user = course.instructor
                             \/ user_type(user) = "admin"
                             \/ user \in enrollments)
       /\ course'.exists => enrollments \subseteq enrollments']_vars

\* C14 witness: a student who is enrolled was let into a lesson that is not a
\* free preview
C14_Witness ==
    /\ resp.outcome = "Allowed"
    /\ ~resp.lesson.is_free_preview
    /\ resp.user \in Students
    /\ resp.user \in enrollments

\* C15: a request that creates, edits or deletes a lesson or a question of the
\* course changes the stored lessons and questions only when its principal is
\* the course's instructor or an administrator.
C15_OnlyManagersMutate ==
    [][\A user \in Principals :
         (/\ user # course.instructor
          /\ user_type(user) # "admin"
          /\ \/ \E is_free_preview \in BOOLEAN : lesson_create(user, is_free_preview)
             \/ \E lesson \in lessons, is_free_preview \in BOOLEAN :
                  lesson_edit(user, lesson, is_free_preview)
             \/ \E lesson \in lessons : lesson_delete(user, lesson)
             \/ add_question(user, 2, "A")
             \/ \E question \in questions : delete_question(user, question))
             => lessons' = lessons /\ questions' = questions]_vars

\* C16: whatever management operation the course's instructor may do on the
\* course, an administrator may do too: edit and delete the course, create,
\* edit and delete its lessons.
C16_AdminMayWhatOwnerMay ==
    \A user \in Principals :
        is_admin_user(user) =>
            /\ \A status \in CourseStatuses :
                 (ENABLED CourseUpdateView(course.instructor, status))
                     => ENABLED CourseUpdateView(user, status)
            /\ (ENABLED CourseDeleteView(course.instructor))
                     => ENABLED CourseDeleteView(user)
            /\ \A is_free_preview \in BOOLEAN :
                 (ENABLED lesson_create(course.instructor, is_free_preview))
                     => ENABLED lesson_create(user, is_free_preview)
            /\ \A lesson \in lessons :
                 (ENABLED lesson_delete(course.instructor, lesson))
                     => ENABLED lesson_delete(user, lesson)

C18_ProgressMatchesStatus ==
    \A user \in enrollments :
        /\ enrollment[user].progress \in 0..100
        /\ enrollment[user].progress >= 100
              <=> /\ enrollment[user].status = "completed"
                  /\ enrollment[user].completed_at # None

\* ---- reviews (SpecReview)
\* C19: after every write of a course review, new or updated,
\* course.average_rating is the mean of the ratings of the course's reviews
\* rounded to 2 decimals: no hundredth is nearer to the mean.
C19_AverageIsRoundedMean ==
    [][\A user \in Reviewers, method \in Methods, rating \in Ratings :
         add_course_review(user, method, rating)
             => LET n == Cardinality(DOMAIN reviews')
                    sum == SumRatings(reviews', DOMAIN reviews')
                    diff == 2 * (n * course'.average_rating - 100 * sum)
                IN  /\ n > 0
                    /\ reviews'[user] = rating
                    /\ diff <= n /\ -diff <= n]_vars

\* C19 witness: three reviews whose mean, 8/3, is not a multiple of 0.01
C19_Witness ==
    /\ Cardinality(DOMAIN reviews) = 3
    /\ SumRatings(reviews, DOMAIN reviews) = 8
    /\ course.average_rating = 267

\* ---- concurrent submissions (Spec)
\* C20: of the submit requests for one attempt at most one completes and
\* scores it: no two requests both answer Submitted for the same attempt.
C20_OneSubmissionWins ==
    \A r1 \in Requests, r2 \in Requests :
        (/\ r1 # r2
         /\ req[r1].pc = "done" /\ req[r1].outcome = "Submitted"
         /\ req[r2].pc = "done" /\ req[r2].outcome = "Submitted")
            => req[r1].attempt_id # req[r2].attempt_id

\* ---------------------------------------------------------------- C21
\* C21: attempts are permanent history: no operation, the deletion of a
\* question or of the quiz by an instructor included, removes a QuizAttempt
\* row; every row of a state is a row of the next state, for the same
\* student and with the same attempt number.
C21_AttemptsAreKept ==
    [][\A i \in DOMAIN attempts :
          /\ i \in DOMAIN attempts'
          /\ attempts'[i].student = attempts[i].student
          /\ attempts'[i].attempt_number = attempts[i].attempt_number]_vars

\* ---------------------------------------------------------------- C22
\* C22: every step that takes an attempt from in_progress to completed, by
\* submission or by expiry noticed on a read, sets completed_at, computes
\* time_taken from it and runs the scoring; so a completed attempt always
\* has completed_at set.
C22_CompletionSetsTimestamp ==
    [][\A i \in DOMAIN attempts :
          (/\ i \in DOMAIN attempts'
           /\ attempts[i].status = "in_progress"
           /\ attempts'[i].status = "completed")
              => /\ attempts'[i].completed_at # None
                 /\ attempts'[i].time_taken =
                        (attempts'[i].completed_at - attempts'[i].started_at) * 60
                 /\ attempts'[i] = calculate_score(attempts'[i], questions, quiz)]_vars

\* ---------------------------------------------------------------- C23
\* C23: the submission is atomic: in no state does a row that is still
\* in_progress carry a completed_at or answers, and no row has a computed
\* percentage without completed_at.
C23_SubmissionIsAtomic ==
    \A i \in DOMAIN attempts :
        /\ attempts[i].status = "in_progress"
              => attempts[i].completed_at = None /\ attempts[i].answers = << >>
        /\ attempts[i].percentage # PctZero => attempts[i].completed_at # None

\* ---------------------------------------------------------------- C25
\* C25: expiry is evaluated on the submit path too: a complete POST for an
\* attempt whose time is up, and whose row no read has closed yet, is not
\* accepted for saving and scoring.
C25_LateSubmitIsRefused ==
    [][\A r \in Requests, post \in Posts1 :
          (/\ take_quiz_collect_answers(r, post)
           /\ TimeIsUp(quiz, req[r].current_attempt.started_at)
           /\ attempts[req[r].current_attempt.id].status = "in_progress")
              => req'[r].pc # "L308"]_vars

\* ---------------------------------------------------------------- C26
\* C26: interleaved take-requests of one student never end in an unhandled
\* uniqueness violation: no request is answered with the IntegrityError of
\* the insert.
C26_NoUniquenessFault ==
    \A r \in Requests :
        req[r].pc = "done" => req[r].outcome # "IntegrityError"

\* ---------------------------------------------------------------- C30
\* C30: for a quiz with max_attempts = m > 0 no student ever has more than m
\* QuizAttempt rows, whatever the interleaving of the take-requests.
C30_AttemptsWithinCap ==
    quiz.max_attempts > 0
        => \A s \in Students : AttemptsCount(attempts, s) <= quiz.max_attempts

\* two interleaved requests of a student at the last attempt the cap allows:
\* one created it, the insert of the other was refused
C30_Witness ==
    \E r1 \in Requests, r2 \in Requests :
        /\ req[r1].pc = "done" /\ req[r1].outcome = "Rendered"
        /\ req[r2].pc = "done" /\ req[r2].outcome = "IntegrityError"
        /\ req[r1].user = req[r2].user
        /\ quiz.max_attempts > 0
        /\ AttemptsCount(attempts, req[r1].user) = quiz.max_attempts

\* ---------------------------------------------------------------- C27
\* C27: the per-question breakdown of quiz_results agrees with calculate_score
\* for every stored answer value: a question is reported correct exactly when
\* the scoring awarded its points, and the points of the breakdown add up to
\* the attempt's score.
RECURSIVE SumResultPoints(_)
SumResultPoints(rows) ==
    IF rows = << >> THEN 0 ELSE Head(rows).points + SumResultPoints(Tail(rows))

C27_ResultsAgreeWithScore ==
    [][\A user \in Students, i \in DOMAIN attempts :
          (quiz_results(user, i) /\ attempts[i].status = "completed")
              => /\ \A k \in DOMAIN resp'.results :
                       resp'.results[k].is_correct <=>
                          \E q \in questions :
                             /\ q.id = resp'.results[k].question
                             /\ AnswerIsCorrect(attempts[i].answers, q)
                 /\ SumResultPoints(resp'.results) = attempts[i].score]_vars

C29_ReorderStaysInQuiz ==
    [][\A user \in Principals, method \in Methods, order \in OrderLists :
          reorder_questions(user, method, order)
              => other_questions' = other_questions]_vars

\* ---------------------------------------------------------------- C24
\* C24: enrollment writes and review writes for the course interleave: once
\* every request has finished, total_enrollments is the number of Enrollment
\* rows and average_rating is the mean of the ratings rounded to two
\* decimals; neither is lost to the course write of another request.
C24_AggregatesSurviveInterleaving ==
    (\A r \in Requests : CourseFree(r))
        => LET n == Cardinality(DOMAIN reviews)
               sum == SumRatings(reviews, DOMAIN reviews)
               diff == 2 * (n * course.average_rating - 100 * sum)
           IN  /\ course.total_enrollments = Cardinality(enrollments)
               /\ n = 0 => course.average_rating = 0
               /\ diff <= n /\ -diff <= n

====
